---- MODULE Spec2Model ----
(***************************************************************************)
(* pydriller: the unified-diff parser (Repository.parse_diff) and the     *)
(* blame-based attribution (GitRepository.get_commits_last_modified_lines).*)
(*                                                                         *)
(* Text is modelled character by character: a Python str is a sequence of  *)
(* one-character strings, so that startswith, rstrip, strip, split,        *)
(* replace and int() are computed as the code computes them.               *)
(***************************************************************************)
EXTENDS Integers, Sequences, FiniteSets, TLC

VARIABLES
    diffSrc,        \* the lines the diff text was written from (kind, numbers, text)
    diff,           \* the diff text handed to parse_diff
    parsed,         \* what parse_diff produced: the dictionary, or the exception
    ppc,            \* position of the parse_diff caller: "off", "ready" or "done"
    modifications,  \* commit.modifications of the commit under analysis
    modification,   \* the Modification passed by the caller as <<m>>; <<>> is None
    repo,           \* the git repository's mutable state: branches and HEAD
    pc,             \* position of get_commits_last_modified_lines: "idle" or "loop"
    callNo,         \* how many calls of it have begun
    idx,            \* position of the for loop over the modifications (1-based)
    buggy_commits,  \* the set the call accumulates
    outcome,        \* how the current call ended: returned value or exception
    firstOutcome,   \* how the previous call ended
    blameLog,       \* the git blame requests of the current call
    lookupLog,      \* the blame lines the current call indexed
    resolveLog,     \* the identifiers the current call passed to get_commit
    diagnostics     \* the logger.debug records of the current call

parseVars == <<diffSrc, diff, parsed, ppc>>

callVars == <<pc, idx, buggy_commits, outcome, blameLog, lookupLog, resolveLog,
              diagnostics>>

attrVars == <<modifications, modification, repo, callNo, firstOutcome, callVars>>

vars == <<parseVars, attrVars>>

----------------------------------------------------------------------------
(* Bounds *)

\* longest diff, in lines, handed to parse_diff
MaxDiffLines == 4

\* most modifications in the commit under analysis
MaxMods == 3

----------------------------------------------------------------------------
(* Python str operations *)

Whitespace == {" ", "\t", "\r", "\n", "\f"}

Digits == <<"0", "1", "2", "3", "4", "5", "6", "7", "8", "9">>

\* str.startswith(p)
StartsWith(s, p) == Len(s) >= Len(p) /\ SubSeq(s, 1, Len(p)) = p

\* str.rstrip(): drop the trailing whitespace
RECURSIVE RStrip(_)
RStrip(s) ==
    IF s = <<>> THEN s
    ELSE IF s[Len(s)] \in Whitespace THEN RStrip(SubSeq(s, 1, Len(s) - 1))
    ELSE s

\* str.lstrip(): drop the leading whitespace
RECURSIVE LStrip(_)
LStrip(s) ==
    IF s = <<>> THEN s
    ELSE IF s[1] \in Whitespace THEN LStrip(Tail(s))
    ELSE s

\* str.strip()
Strip(s) == LStrip(RStrip(s))

\* str.split(sep) for a one-character separator: always at least one field
RECURSIVE SplitAcc(_, _, _, _)
SplitAcc(s, sep, cur, acc) ==
    IF s = <<>> THEN Append(acc, cur)
    ELSE IF s[1] = sep THEN SplitAcc(Tail(s), sep, <<>>, Append(acc, cur))
    ELSE SplitAcc(Tail(s), sep, Append(cur, s[1]), acc)

Split(s, sep) == SplitAcc(s, sep, <<>>, <<>>)

\* str.replace(c, ""): every occurrence of the character is removed
Remove(s, c) == SelectSeq(s, LAMBDA x : x # c)

IsDigit(c) == \E i \in 1..10 : Digits[i] = c

DigitVal(c) == (CHOOSE i \in 1..10 : Digits[i] = c) - 1

AllDigits(s) == s # <<>> /\ \A i \in 1..Len(s) : IsDigit(s[i])

RECURSIVE DigitsVal(_, _)
DigitsVal(s, acc) ==
    IF s = <<>> THEN acc ELSE DigitsVal(Tail(s), 10 * acc + DigitVal(s[1]))

\* int(s) accepts an optional sign followed by decimal digits (surrounding
\* whitespace is accepted too); anything else raises ValueError
IntOk(s) ==
    LET t == Strip(s)
    IN  IF t # <<>> /\ t[1] \in {"+", "-"} THEN AllDigits(Tail(t)) ELSE AllDigits(t)

IntVal(s) ==
    LET t == Strip(s)
    IN  IF t[1] = "-" THEN 0 - DigitsVal(Tail(t), 0)
        ELSE IF t[1] = "+" THEN DigitsVal(Tail(t), 0)
        ELSE DigitsVal(t, 0)

----------------------------------------------------------------------------
(* Repository._get_line_numbers and Repository.parse_diff *)

NoError == "none"

\* token[1], token[2] must exist (IndexError), both numbers must convert
\* (ValueError); the old number has every "-" removed before conversion
GetLineNumbers(line) ==
    LET token == Split(line, " ")
    IN  IF Len(token) < 3
        THEN [err |-> "IndexError", del |-> 0, add |-> 0]
        ELSE LET numbers_old_file == token[2]
                 numbers_new_file == token[3]
                 old == Remove(Split(numbers_old_file, ",")[1], "-")
                 new == Split(numbers_new_file, ",")[1]
             IN  IF ~IntOk(old) \/ ~IntOk(new)
                 THEN [err |-> "ValueError", del |-> 0, add |-> 0]
                 ELSE [err |-> NoError,
                       del |-> IntVal(old) - 1,
                       add |-> IntVal(new) - 1]

\* line 101: a hunk header is any line starting with "@@"
IsHunkHeader(line) == StartsWith(line, <<"@", "@">>)

\* line 104: a deletion is any line starting with "-"
IsDeletion(line) == StartsWith(line, <<"-">>)

\* line 108: an addition is any line starting with "+"
IsAddition(line) == StartsWith(line, <<"+">>)

\* line 106: a deletion takes the new-file counter back
AfterDeletion(count_additions) == count_additions - 1

\* line 110 left out: the old-file counter stays advanced
AfterAddition_Keep(count_deletions) == count_deletions

\* line 110: an addition takes the old-file counter back
AfterAddition(count_deletions) == count_deletions - 1

ParseStart ==
    [err |-> NoError, added |-> <<>>, deleted |-> <<>>,
     count_deletions |-> 0, count_additions |-> 0]

\* one iteration of the for loop of parse_diff; an exception ends the loop
ParseLine(st, raw) ==
    IF st.err # NoError THEN st
    ELSE
    LET line == RStrip(raw)
        cd1  == st.count_deletions + 1
        ca1  == st.count_additions + 1
        hdr  == IsHunkHeader(line)
        nums == IF hdr THEN GetLineNumbers(line)
                ELSE [err |-> NoError, del |-> cd1, add |-> ca1]
        cd2  == nums.del
        ca2  == nums.add
        isd  == IsDeletion(line)
        del3 == IF isd THEN Append(st.deleted, <<cd2, Tail(line)>>) ELSE st.deleted
        ca3  == IF isd THEN AfterDeletion(ca2) ELSE ca2
        isa  == IsAddition(line)
        add4 == IF isa THEN Append(st.added, <<ca3, Tail(line)>>) ELSE st.added
        cd4  == IF isa THEN AfterAddition(cd2) ELSE cd2
    IN  IF nums.err # NoError
        THEN [st EXCEPT !.err = nums.err]
        ELSE [err |-> NoError, added |-> add4, deleted |-> del3,
              count_deletions |-> cd4, count_additions |-> ca3]

RECURSIVE ParseLines(_, _)
ParseLines(st, lines) ==
    IF lines = <<>> THEN st ELSE ParseLines(ParseLine(st, lines[1]), Tail(lines))

\* parse_diff(diff): the dictionary {'added', 'deleted'}, or the exception
ParseDiff(text) ==
    LET st == ParseLines(ParseStart, Split(text, "\n"))
    IN  [err |-> st.err,
         added |-> IF st.err = NoError THEN st.added ELSE <<>>,
         deleted |-> IF st.err = NoError THEN st.deleted ELSE <<>>]

----------------------------------------------------------------------------
(* The diffs handed to parse_diff: written line by line from these samples. *)
(* kind, old and new say what the line is; text is what the parser reads.   *)

HunkLine1 ==
    [kind |-> "hunk", old |-> 5, new |-> 7,
     text |-> <<"@", "@", " ", "-", "5", ",", "3", " ", "+", "7", ",", "4", " ", "@", "@">>]

HunkLine2 ==
    [kind |-> "hunk", old |-> 12, new |-> 3,
     text |-> <<"@", "@", " ", "-", "1", "2", ",", "2", " ", "+", "3", " ", "@", "@">>]

ContextLine == [kind |-> "context", old |-> 0, new |-> 0, text |-> <<" ", "k">>]

DeletedLine == [kind |-> "del", old |-> 0, new |-> 0, text |-> <<"-", "x", "\r">>]

AddedLine == [kind |-> "add", old |-> 0, new |-> 0, text |-> <<"+", "y">>]

OldFileLine ==
    [kind |-> "oldfile", old |-> 0, new |-> 0,
     text |-> <<"-", "-", "-", " ", "a", "/", "f">>]

NewFileLine ==
    [kind |-> "newfile", old |-> 0, new |-> 0,
     text |-> <<"+", "+", "+", " ", "b", "/", "f">>]

\* old-file start "1-2" is not a number
BadHunkDash ==
    [kind |-> "badhunk", old |-> 0, new |-> 0,
     text |-> <<"@", "@", " ", "-", "1", "-", "2", " ", "+", "3", " ", "@", "@">>]

\* old-file start "a" is not a number
BadHunkAlpha ==
    [kind |-> "badhunk", old |-> 0, new |-> 0,
     text |-> <<"@", "@", " ", "-", "a", " ", "+", "1", " ", "@", "@">>]

\* new-file start is missing
BadHunkShort ==
    [kind |-> "badhunk", old |-> 0, new |-> 0,
     text |-> <<"@", "@", " ", "-", "1">>]

NoNewlineLine ==
    [kind |-> "marker", old |-> 0, new |-> 0,
     text |-> <<"\\", " ", "N", "o", " ", "n", "e", "w", "l", "i", "n", "e", " ",
                "a", "t", " ", "e", "n", "d", " ", "o", "f", " ", "f", "i", "l", "e">>]

LineSamples ==
    {HunkLine1, HunkLine2, ContextLine, DeletedLine, AddedLine, OldFileLine,
     NewFileLine, BadHunkDash, BadHunkAlpha, BadHunkShort, NoNewlineLine}

\* texts joined by "\n"
RECURSIVE Join(_)
Join(ts) ==
    IF ts = <<>> THEN <<>>
    ELSE IF Len(ts) = 1 THEN ts[1]
    ELSE ts[1] \o <<"\n">> \o Join(Tail(ts))

\* the lines joined by "\n", as the backend hands the diff over
JoinLines(ls) == Join([i \in 1..Len(ls) |-> ls[i].text])

DiffSources == UNION {[1..n -> LineSamples] : n \in 0..MaxDiffLines}

----------------------------------------------------------------------------
(* The repository under analysis: one commit, and the files of its parent  *)
(* revision with the output git blame gives for each.                      *)

None == "None"

CommitHash == "c0"

MainBranch == "master"

A1 == <<"a", "1">>
B2 == <<"b", "2">>
C3 == <<"c", "3">>
ZZ == <<"z", "z">>

\* the commits the object database knows by an abbreviated identifier
KnownCommits == {A1, B2, C3}

\* per file of the parent revision: the first field of each blame line, a
\* leading "^" marking a boundary commit
ParentTree ==
    [p \in {"full.py", "short.py", "lost.py"} |->
        CASE p = "full.py"  -> <<A1, B2, A1, C3, <<"^">> \o B2, A1, A1, C3>>
          [] p = "short.py" -> <<A1, B2>>
          [] p = "lost.py"  -> <<A1, B2, ZZ, C3, B2, A1, A1, C3>>]

\* the rest of a blame line: line number and content
BlameLine(tok) == tok \o <<" ", "1", ")", " ", "q">>

\* self.git.blame(rev, '--', path): the text, or GitCommandError when the
\* path does not exist at the revision (the history modelled is that of the
\* parent revision; a request at any other revision fails too)
GitBlame(rev, path) ==
    IF rev = <<CommitHash, "^">> /\ path \in DOMAIN ParentTree
    THEN [err |-> NoError,
          out |-> Join([i \in 1..Len(ParentTree[path]) |-> BlameLine(ParentTree[path][i])])]
    ELSE [err |-> "GitCommandError", out |-> <<>>]

\* get_commit(commit_id).hash: the full hash, or the object database's
\* BadName for an identifier it does not know
GetCommitHash(commit_id) ==
    IF commit_id \in KnownCommits
    THEN [err |-> NoError, hash |-> commit_id \o <<"0", "0">>]
    ELSE [err |-> "BadName", hash |-> <<>>]

InitialRepo == [active_branch |-> MainBranch, heads |-> {MainBranch}, head |-> "tip"]

\* _delete_tmp_branch: leave _PD if it is checked out, then delete it
DeleteTmpBranch(r) ==
    LET r1 == IF r.active_branch = "_PD"
              THEN [r EXCEPT !.active_branch = MainBranch, !.head = "tip"]
              ELSE r
    IN  [r1 EXCEPT !.heads = r1.heads \ {"_PD"}]

\* checkout(_hash): git checkout -f _hash -b _PD
CheckoutRepo(r, hash) ==
    LET r1 == DeleteTmpBranch(r)
    IN  [active_branch |-> "_PD", heads |-> r1.heads \cup {"_PD"}, head |-> hash]

\* reset(): git checkout -f main_branch, then _delete_tmp_branch
ResetRepo(r) ==
    DeleteTmpBranch([r EXCEPT !.active_branch = MainBranch, !.head = "tip"])

----------------------------------------------------------------------------
(* The modifications a commit is made of *)

DiffMixed ==
    Join(<< <<"@", "@", " ", "-", "1", ",", "6", " ", "+", "1", ",", "2", " ", "@", "@">>,
            <<"-", "#", " ", "c", "o", "m", "m", "e", "n", "t">>,
            <<"-">>,
            <<"-", "x", " ", "=", " ", "1">>,
            <<" ", "k">>,
            <<"-", "y">>,
            <<"-", "w">>,
            <<"+", "z">> >>)

DiffComments ==
    Join(<< <<"@", "@", " ", "-", "2", ",", "7", " ", "+", "2", ",", "0", " ", "@", "@">>,
            <<"-", "/", "/", "c">>,
            <<"-", "/", "*", "c">>,
            <<"-", " ", "*", "c">>,
            <<"-", "'", "'", "'">>,
            <<"-", "\"", "\"", "\"">>,
            <<"-", "\t", " ">>,
            <<"-", "/", "x">> >>)

DiffAddOnly ==
    Join(<< <<"@", "@", " ", "-", "0", ",", "0", " ", "+", "1", " ", "@", "@">>,
            <<"+", "n">> >>)

DiffBadHeader ==
    Join(<< <<"@", "@", " ", "-", "a", " ", "+", "1", " ", "@", "@">>,
            <<"-", "x">> >>)

Mod(type, old, new, d) ==
    [change_type |-> type, old_path |-> old, new_path |-> new, diff |-> d]

ModSamples ==
    { Mod("MODIFY", "full.py", "full.py", DiffMixed),
      Mod("MODIFY", "full.py", "full.py", DiffComments),
      Mod("MODIFY", "full.py", "full.py", DiffAddOnly),
      Mod("MODIFY", "short.py", "short.py", DiffMixed),
      Mod("MODIFY", "lost.py", "lost.py", DiffMixed),
      Mod("MODIFY", "full.py", "full.py", DiffBadHeader),
      Mod("RENAME", "full.py", "new.py", DiffComments),
      Mod("RENAME", "gone.py", "new.py", DiffMixed),
      Mod("DELETE", "full.py", None, DiffMixed),
      Mod("ADD", None, "new.py", DiffAddOnly) }

----------------------------------------------------------------------------
(* GitRepository.get_commits_last_modified_lines *)

\* _useless_line(line) without its last alternative
UselessLine_NoStar(line) ==
    \/ StartsWith(line, <<"/", "/">>)
    \/ StartsWith(line, <<"#">>)
    \/ StartsWith(line, <<"/", "*">>)
    \/ StartsWith(line, <<"'", "'", "'">>)
    \/ StartsWith(line, <<"\"", "\"", "\"">>)
    \/ line = <<>>

\* _useless_line(line)
UselessLine(line) ==
    \/ StartsWith(line, <<"/", "/">>)
    \/ StartsWith(line, <<"#">>)
    \/ StartsWith(line, <<"/", "*">>)
    \/ StartsWith(line, <<"'", "'", "'">>)
    \/ StartsWith(line, <<"\"", "\"", "\"">>)
    \/ line = <<>>
    \/ StartsWith(line, <<"*">>)

\* lines 169-172: the modifications the call analyses
Analysed(m, commit_modifications) ==
    IF m # <<>> THEN m ELSE commit_modifications

\* line 175 alone: the new path whatever the change type
BlamePath_NewPath(mod) == mod.new_path

\* lines 175-177: the path to blame
BlamePath(mod) ==
    IF mod.change_type = "RENAME" \/ mod.change_type = "DELETE"
    THEN mod.old_path
    ELSE mod.new_path

\* line 181: the revision to blame, commit.hash + '^'
BlameRev(hash) == <<hash, "^">>

\* no except clause: every exception leaves the call
Caught_Nothing(exc) == FALSE

\* line 186: the exceptions the try block catches
Caught(exc) == exc = "GitCommandError"

\* a handler that puts the failure into the returned set
AfterCaught_Reported(commits, path) == commits \cup {<<"failed", path>>}

\* lines 186-188: the handler writes a debug record; the set is untouched
AfterCaught(commits, path) == commits

\* line 184: blame[num_line - 1], a Python list index: negative indices
\* count from the end, anything outside raises IndexError
ListIndexOk(list, i) == 0 - Len(list) <= i /\ i < Len(list)

ListAt(list, i) == IF i >= 0 THEN list[i + 1] ELSE list[Len(list) + i + 1]

\* blame[num_line]: the 1-based number used as a 0-based index
BlameIndex_OffByOne(num_line) == num_line

\* line 184: the index of the blame line of a deleted line
BlameIndex(num_line) == num_line - 1

\* lines 183-185: one deleted line of file k; st carries the exception (if
\* any), the set, and the lookups and resolves made
AttributeLine(k, blame, num_line, line, st) ==
    IF st.exc # NoError \/ UselessLine(Strip(line)) THEN st
    ELSE
    LET looked == [st EXCEPT !.lookups =
                      Append(@, [file |-> k, num_line |-> num_line, line |-> line])]
    IN  IF ~ListIndexOk(blame, BlameIndex(num_line))
        THEN [looked EXCEPT !.exc = "IndexError"]
        ELSE
        LET buggy_commit ==
                Remove(Split(ListAt(blame, BlameIndex(num_line)), " ")[1], "^")
            got == GetCommitHash(buggy_commit)
            asked == [looked EXCEPT !.resolves =
                         Append(@, [file |-> k, num_line |-> num_line,
                                    id |-> buggy_commit])]
        IN  IF got.err # NoError
            THEN [asked EXCEPT !.exc = got.err]
            ELSE [asked EXCEPT !.commits = @ \cup {got.hash}]

\* line 182: the loop over the deleted lines; an exception ends it
RECURSIVE AttributeLines(_, _, _, _)
AttributeLines(k, blame, deleted_lines, st) ==
    IF deleted_lines = <<>> THEN st
    ELSE AttributeLines(k, blame, Tail(deleted_lines),
            AttributeLine(k, blame, deleted_lines[1][1], deleted_lines[1][2], st))

\* line 179: self.parse_diff(mod.diff); parse_diff is a function of the text
\* alone, so its results are tabulated over the modifications
ParsedDiff == [m \in ModSamples |-> ParseDiff(m.diff)]

\* lines 175-188: the body of the loop for modification number k
FileStep(k, mod, commits) ==
    LET path  == BlamePath(mod)
        diffd == ParsedDiff[mod]
        start == [exc |-> NoError, commits |-> commits, lookups |-> <<>>,
                  resolves |-> <<>>, requests |-> <<>>, debug |-> 0]
    IN  IF diffd.err # NoError THEN [start EXCEPT !.exc = diffd.err]
        ELSE
        LET asked == [start EXCEPT !.requests =
                         <<[file |-> k, rev |-> BlameRev(CommitHash), path |-> path]>>]
            out   == GitBlame(BlameRev(CommitHash), path)
            done  == IF out.err # NoError THEN [asked EXCEPT !.exc = out.err]
                     ELSE AttributeLines(k, Split(out.out, "\n"), diffd.deleted, asked)
        IN  IF done.exc # NoError /\ Caught(done.exc)
            THEN [done EXCEPT !.exc = NoError,
                              !.commits = AfterCaught(done.commits, path),
                              !.debug = 1]
            ELSE done

NoOutcome == [status |-> "none", value |-> {}, exc |-> NoError]

\* checkout(_hash) by the user of the repository, before the analysis
Checkout ==
    /\ pc = "idle" /\ callNo = 0
    /\ repo' = CheckoutRepo(repo, CommitHash)
    /\ UNCHANGED <<parseVars, modifications, modification, callNo, firstOutcome, callVars>>

\* reset() by the user of the repository, before the analysis
Reset ==
    /\ pc = "idle" /\ callNo = 0
    /\ repo' = ResetRepo(repo)
    /\ UNCHANGED <<parseVars, modifications, modification, callNo, firstOutcome, callVars>>

\* the call begins (line 167); a second call follows the first with the same
\* arguments
BeginCall ==
    /\ pc = "idle" /\ callNo < 2
    /\ pc' = "loop"
    /\ callNo' = callNo + 1
    /\ firstOutcome' = outcome
    /\ outcome' = NoOutcome
    /\ buggy_commits' = {}
    /\ idx' = 1
    /\ blameLog' = <<>> /\ lookupLog' = <<>> /\ resolveLog' = <<>>
    /\ diagnostics' = 0
    /\ UNCHANGED <<parseVars, modifications, modification, repo>>

\* one iteration of the loop over the modifications (lines 174-188), with
\* the repository left as given
ProcessFileLeaving(r) ==
    /\ pc = "loop"
    /\ idx <= Len(Analysed(modification, modifications))
    /\ \E res \in {FileStep(idx, Analysed(modification, modifications)[idx], buggy_commits)} :
           /\ buggy_commits' = res.commits
           /\ blameLog' = blameLog \o res.requests
           /\ lookupLog' = lookupLog \o res.lookups
           /\ resolveLog' = resolveLog \o res.resolves
           /\ diagnostics' = diagnostics + res.debug
           /\ IF res.exc # NoError
              THEN /\ pc' = "idle"
                   /\ outcome' = [status |-> "raised", value |-> {}, exc |-> res.exc]
                   /\ idx' = idx
              ELSE /\ pc' = pc
                   /\ outcome' = outcome
                   /\ idx' = idx + 1
    /\ repo' = r
    /\ UNCHANGED <<parseVars, modifications, modification, callNo, firstOutcome>>

\* a loop body that checks the commit out before blaming
ProcessFile_Checkout == ProcessFileLeaving(CheckoutRepo(repo, CommitHash))

\* the loop body as written: the repository is only read
ProcessFile == ProcessFileLeaving(repo)

\* line 190: return buggy_commits
Return ==
    /\ pc = "loop"
    /\ idx > Len(Analysed(modification, modifications))
    /\ pc' = "idle"
    /\ outcome' = [status |-> "returned", value |-> buggy_commits, exc |-> NoError]
    /\ UNCHANGED <<parseVars, modifications, modification, repo, callNo, firstOutcome,
                   idx, buggy_commits, blameLog, lookupLog, resolveLog, diagnostics>>

----------------------------------------------------------------------------
(* Specifications *)

Pending == [err |-> "pending", added |-> <<>>, deleted |-> <<>>]

ModSequences == UNION {[1..n -> ModSamples] : n \in 1..MaxMods}

AttrIdle ==
    /\ repo = InitialRepo
    /\ pc = "idle"
    /\ callNo = 0
    /\ idx = 0
    /\ buggy_commits = {}
    /\ outcome = NoOutcome
    /\ firstOutcome = NoOutcome
    /\ blameLog = <<>> /\ lookupLog = <<>> /\ resolveLog = <<>>
    /\ diagnostics = 0

\* the parser alone: a diff is drawn, parse_diff is applied to it
InitParse ==
    /\ diffSrc \in DiffSources
    /\ diff = JoinLines(diffSrc)
    /\ parsed = Pending
    /\ ppc = "ready"
    /\ modifications = <<>>
    /\ modification = <<>>
    /\ AttrIdle

\* a caller runs parse_diff on the diff
CallParseDiff ==
    /\ ppc = "ready"
    /\ parsed' = ParseDiff(diff)
    /\ ppc' = "done"
    /\ UNCHANGED <<diffSrc, diff, attrVars>>

NextParse == CallParseDiff

SpecParse == InitParse /\ [][NextParse]_vars

\* the attribution: a commit is drawn, with or without a single modification
\* of it to analyse
Init ==
    /\ diffSrc = <<>>
    /\ diff = <<>>
    /\ parsed = Pending
    /\ ppc = "off"
    /\ modifications \in ModSequences
    /\ modification \in {<<>>} \cup {<<modifications[k]>> : k \in 1..Len(modifications)}
    /\ AttrIdle

Next == Checkout \/ Reset \/ BeginCall \/ ProcessFile \/ Return

Spec == Init /\ [][Next]_vars

----------------------------------------------------------------------------
(* Claims about parse_diff *)

Numbers(recs) == [k \in 1..Len(recs) |-> recs[k][1]]

Indices(src, kinds) ==
    SelectSeq([i \in 1..Len(src) |-> i], LAMBDA i : src[i].kind \in kinds)

\* the hunk header a line belongs to: the last one before it
HunkOf(src, i) == CHOOSE h \in 1..i : /\ src[h].kind = "hunk"
                                      /\ \A j \in (h + 1)..i : src[j].kind # "hunk"

\* the position of line i in the old file: the hunk's old start plus the
\* context and deleted lines of the hunk before it
OldPosition(src, i) ==
    LET h == HunkOf(src, i)
    IN  src[h].old
          + Cardinality({j \in (h + 1)..(i - 1) : src[j].kind \in {"context", "del"}})

\* the position of line i in the new file: the hunk's new start plus the
\* context and added lines of the hunk before it
NewPosition(src, i) ==
    LET h == HunkOf(src, i)
    IN  src[h].new
          + Cardinality({j \in (h + 1)..(i - 1) : src[j].kind \in {"context", "add"}})

\* a diff made of zero or more hunks: header, then context, "+" and "-" lines
HunksOnly(src) ==
    /\ \A i \in 1..Len(src) : src[i].kind \in {"hunk", "context", "del", "add"}
    /\ src # <<>> => src[1].kind = "hunk"

\* C1: for a diff made of hunks only, parse_diff returns, and the k-th deleted
\* record carries the old-file position of the k-th "-" line (old start of its
\* hunk plus the context and "-" lines before it in the hunk), the k-th added
\* record the new-file position of the k-th "+" line; each header resets both.
C1_LineNumbers ==
    (ppc = "done" /\ HunksOnly(diffSrc)) =>
        LET dels == Indices(diffSrc, {"del"})
            adds == Indices(diffSrc, {"add"})
        IN  /\ parsed.err = NoError
            /\ Numbers(parsed.deleted) = [k \in 1..Len(dels) |-> OldPosition(diffSrc, dels[k])]
            /\ Numbers(parsed.added) = [k \in 1..Len(adds) |-> NewPosition(diffSrc, adds[k])]

\* a hunk in which two deletions follow an addition: the addition takes no
\* old-file number
C1_Witness ==
    /\ ppc = "done"
    /\ Len(diffSrc) = 4
    /\ diffSrc[1] = HunkLine1 /\ diffSrc[2] = AddedLine /\ diffSrc[3] = DeletedLine
    /\ diffSrc[4] = DeletedLine
    /\ Numbers(parsed.deleted) = <<5, 6>>
    /\ Numbers(parsed.added) = <<7>>

\* how many lines start with p but not with q
CountStarting(src, p, q) ==
    Cardinality({i \in 1..Len(src) : /\ StartsWith(src[i].text, p)
                                     /\ ~StartsWith(src[i].text, q)})

BeforeFirstHunk(src) ==
    IF \E i \in 1..Len(src) : IsHunkHeader(src[i].text)
    THEN SubSeq(src, 1, (CHOOSE i \in 1..Len(src) :
                            /\ IsHunkHeader(src[i].text)
                            /\ \A j \in 1..(i - 1) : ~IsHunkHeader(src[j].text)) - 1)
    ELSE src

\* C5: parse_diff emits no record for a "---" / "+++" file header or a hunk
\* header: the deleted records are as many as the lines starting with "-" but
\* not "---", the added records as many as the lines starting with "+" but not
\* "+++", and no record comes from a line before the first hunk header.
C5_NoHeaderRecords ==
    (ppc = "done" /\ parsed.err = NoError) =>
        /\ Len(parsed.deleted) = CountStarting(diffSrc, <<"-">>, <<"-", "-", "-">>)
        /\ Len(parsed.added) = CountStarting(diffSrc, <<"+">>, <<"+", "+", "+">>)
        /\ LET head == ParseDiff(JoinLines(BeforeFirstHunk(diffSrc)))
           IN  head.deleted = <<>> /\ head.added = <<>>

\* the start number a header field states: the field without its one leading
\* marker, up to the first comma
StartField(field, marker) ==
    LET f == IF StartsWith(field, <<marker>>) THEN Tail(field) ELSE field
    IN  Split(f, ",")[1]

\* a hunk header whose old-file or new-file start number is missing or is
\* not a number
MalformedHeader(text) ==
    LET token == Split(RStrip(text), " ")
    IN  /\ IsHunkHeader(text)
        /\ \/ Len(token) < 3
           \/ ~AllDigits(StartField(token[2], "-"))
           \/ ~AllDigits(StartField(token[3], "+"))

\* C6: a diff holding a hunk header whose old or new start number is missing
\* or not a number never yields a change set: parse_diff ends in an error.
C6_MalformedHeaderIsError ==
    (ppc = "done" /\ \E i \in 1..Len(diffSrc) : MalformedHeader(diffSrc[i].text)) =>
        parsed.err # NoError

----------------------------------------------------------------------------
(* Claims about get_commits_last_modified_lines *)

\* the call has ended
Done == pc = "idle" /\ callNo >= 1

\* the files the call analyses: the modification given, else all of the commit's
Files == IF modification = <<>> THEN modifications ELSE modification

CommentMarkers ==
    { <<"/", "/">>, <<"#">>, <<"/", "*">>, <<"*">>, <<"'", "'", "'">>,
      <<"\"", "\"", "\"">> }

\* blank or comment-only once trimmed
NonSubstantive(text) ==
    Strip(text) = <<>> \/ \E m \in CommentMarkers : StartsWith(Strip(text), m)

\* old path for a rename or a delete, new path otherwise
EffectivePath(mod) ==
    IF mod.change_type \in {"RENAME", "DELETE"} THEN mod.old_path ELSE mod.new_path

SubstantiveDeleted(mod) ==
    SelectSeq(ParsedDiff[mod].deleted, LAMBDA r : ~NonSubstantive(r[2]))

\* the commit blame names for line n of a file of the parent revision
BlamedCommit(path, n) ==
    IF ParentTree[path][n][1] = "^" THEN Tail(ParentTree[path][n]) ELSE ParentTree[path][n]

\* the diff parses, the path exists at the parent revision, blame has an
\* entry for every substantive deleted line, and each entry resolves
BlameSucceeds(mod) ==
    /\ ParsedDiff[mod].err = NoError
    /\ EffectivePath(mod) \in DOMAIN ParentTree
    /\ \A i \in 1..Len(SubstantiveDeleted(mod)) :
          /\ SubstantiveDeleted(mod)[i][1] \in 1..Len(ParentTree[EffectivePath(mod)])
          /\ BlamedCommit(EffectivePath(mod), SubstantiveDeleted(mod)[i][1]) \in KnownCommits

\* the diff parses and the path does not exist at the parent revision
PathMissing(mod) ==
    /\ ParsedDiff[mod].err = NoError
    /\ EffectivePath(mod) \notin DOMAIN ParentTree

\* the commits that last touched the substantive deleted lines of a file
Attribution(mod) ==
    { GetCommitHash(BlamedCommit(EffectivePath(mod), SubstantiveDeleted(mod)[i][1])).hash :
        i \in 1..Len(SubstantiveDeleted(mod)) }

AttributionOf(ks) == UNION {Attribution(Files[k]) : k \in ks}

\* C2: when blame succeeds for every analysed file, the call returns exactly
\* the set of resolved blame entries of the substantive deleted lines of the
\* analysed files, blame being indexed 1-based by old-file line number.
C2_ExactSet ==
    (Done /\ \A k \in 1..Len(Files) : BlameSucceeds(Files[k])) =>
        /\ outcome.status = "returned"
        /\ outcome.value = AttributionOf(1..Len(Files))

\* two files, one of them without any deleted line, three commits found
C2_Witness ==
    /\ Done
    /\ modification = <<>>
    /\ Len(Files) = 3
    /\ \A k \in 1..3 : BlameSucceeds(Files[k])
    /\ \E k \in 1..3 : ParsedDiff[Files[k]].deleted = <<>>
    /\ Cardinality(outcome.value) = 3

\* C3: with several files, some failing their blame request because the path
\* does not exist at the parent revision and the others succeeding, the call
\* returns and the result is the attribution of the succeeding files,
\* wherever the failing files stand in the list.
C3_PartialFailureIsolation ==
    (/\ Done
     /\ Len(Files) >= 2
     /\ \E k \in 1..Len(Files) : PathMissing(Files[k])
     /\ \A k \in 1..Len(Files) : PathMissing(Files[k]) \/ BlameSucceeds(Files[k])) =>
        /\ outcome.status = "returned"
        /\ outcome.value = AttributionOf({k \in 1..Len(Files) : BlameSucceeds(Files[k])})

\* three files, the middle one failing, both neighbours attributed
C3_Witness ==
    /\ Done
    /\ Len(Files) = 3
    /\ PathMissing(Files[2])
    /\ BlameSucceeds(Files[1]) /\ Attribution(Files[1]) # {}
    /\ BlameSucceeds(Files[3]) /\ Attribution(Files[3]) # {}
    /\ Attribution(Files[1]) # Attribution(Files[3])
    /\ outcome.status = "returned"
    /\ Attribution(Files[1]) \cup Attribution(Files[3]) \subseteq outcome.value

LogOf(log, k) == SelectSeq(log, LAMBDA e : e.file = k)

\* C4: no blame lookup and no resolve is made for a deleted line that is blank
\* or comment-only once trimmed; for a file whose blame request succeeded and
\* whose lines were all processed, the lookups are exactly its other deleted
\* lines, in order.
C4_NonSubstantiveSkipped ==
    /\ \A i \in 1..Len(lookupLog) : ~NonSubstantive(lookupLog[i].line)
    /\ \A i \in 1..Len(resolveLog) :
          \E j \in 1..Len(lookupLog) :
              /\ lookupLog[j].file = resolveLog[i].file
              /\ lookupLog[j].num_line = resolveLog[i].num_line
    /\ callNo >= 1 =>
          \A k \in 1..(idx - 1) :
              EffectivePath(Files[k]) \in DOMAIN ParentTree =>
                  [i \in 1..Len(LogOf(lookupLog, k)) |->
                      <<LogOf(lookupLog, k)[i].num_line, LogOf(lookupLog, k)[i].line>>]
                    = SubstantiveDeleted(Files[k])

\* a file whose deleted lines are all comments or blank but one
C4_Witness ==
    /\ Done
    /\ outcome.status = "returned"
    /\ Len(Files) = 1
    /\ Files[1].diff = DiffComments
    /\ Len(ParsedDiff[Files[1]].deleted) = 7
    /\ Len(lookupLog) = 1
    /\ lookupLog[1].line = <<"/", "x">>
    /\ Len(resolveLog) = 1

\* C7: every backend failure while processing one file is caught per file:
\* whenever the diffs parse, the call returns and the result holds the
\* attributions of all files that did not fail.
C7_BackendFailuresCaught ==
    (Done /\ \A k \in 1..Len(Files) : ParsedDiff[Files[k]].err = NoError) =>
        /\ outcome.status = "returned"
        /\ AttributionOf({k \in 1..Len(Files) : BlameSucceeds(Files[k])})
              \subseteq outcome.value

\* what the caller receives when every blame succeeded and nothing was found
NothingFound == [status |-> "returned", value |-> {}, exc |-> NoError]

\* C8 as stated: what the caller receives when every file failed its blame
\* differs from what it receives when every blame succeeded and no commit was
\* found.
C8_FailuresDistinguishable ==
    (Done /\ \A k \in 1..Len(Files) : PathMissing(Files[k])) => outcome # NothingFound

\* C8 amended: per-file blame failures are written to the debug log only; the
\* caller receives the set alone, the same empty set when every file failed
\* its blame as when every blame succeeded and no commit was found.
C8_FailuresOnlyLogged ==
    Done =>
        /\ (\A k \in 1..Len(Files) : PathMissing(Files[k])) =>
              outcome = NothingFound /\ diagnostics = Len(Files)
        /\ (\A k \in 1..Len(Files) : BlameSucceeds(Files[k]) /\ Attribution(Files[k]) = {}) =>
              outcome = NothingFound /\ diagnostics = 0

\* two files, both failing their blame
C8_Witness ==
    /\ Done
    /\ Len(Files) = 2
    /\ \A k \in 1..2 : PathMissing(Files[k])
    /\ Files[1] # Files[2]
    /\ outcome = NothingFound
    /\ diagnostics = 2

\* C9: blame is requested once per analysed file, at the parent revision of
\* the commit (hash + "^") and on the old path for a rename or a delete, on
\* the new path otherwise.
C9_BlameAtParentOnEffectivePath ==
    /\ \A i \in 1..Len(blameLog) :
          /\ blameLog[i].file = i
          /\ blameLog[i].rev = <<CommitHash, "^">>
          /\ blameLog[i].path = EffectivePath(Files[i])
    /\ (Done /\ outcome.status = "returned") => Len(blameLog) = Len(Files)

\* a rename, a delete and an addition analysed in one call
C9_Witness ==
    /\ Done
    /\ Len(blameLog) = 3
    /\ Files[1].change_type = "RENAME" /\ blameLog[1].path = "full.py"
    /\ Files[2].change_type = "DELETE" /\ blameLog[2].path = "full.py"
    /\ Files[3].change_type = "ADD" /\ blameLog[3].path = "new.py"

\* C10: no step of the call changes the repository (no checkout, reset or
\* branch creation or deletion), and a second call with the same arguments
\* ends as the first did.
C10_Idempotent ==
    [][/\ (pc = "loop" \/ pc' = "loop") => repo' = repo
       /\ (pc' = "idle" /\ callNo' = 2) => outcome' = firstOutcome']_vars

\* two calls on a repository with _PD checked out, both returning commits
C10_Witness ==
    /\ Done
    /\ callNo = 2
    /\ repo.active_branch = "_PD"
    /\ outcome.status = "returned"
    /\ outcome.value # {}
    /\ firstOutcome = outcome

----------------------------------------------------------------------------
(* Lines of a hunk that belong to neither file version *)

\* the diff without its "\ No newline at end of file" lines
WithoutMarkers(src) == SelectSeq(src, LAMBDA l : l.kind # "marker")

\* a diff made of hunks whose lines may also be "\ No newline" markers
HunksWithMarkers(src) ==
    /\ \A i \in 1..Len(src) : src[i].kind \in {"hunk", "context", "del", "add", "marker"}
    /\ src # <<>> => src[1].kind = "hunk"

\* C11: a "\ No newline at end of file" line inside a hunk consumes no line
\* number in either file: every "+" and "-" line gets from parse_diff the
\* number it gets when the marker lines are removed from the diff.
C11_MarkerConsumesNoNumber ==
    (ppc = "done" /\ HunksWithMarkers(diffSrc)) =>
        /\ parsed.err = NoError
        /\ Numbers(parsed.deleted) =
              Numbers(ParseDiff(JoinLines(WithoutMarkers(diffSrc))).deleted)
        /\ Numbers(parsed.added) =
              Numbers(ParseDiff(JoinLines(WithoutMarkers(diffSrc))).added)

====
